---- MODULE Spec2Model ----
(***************************************************************************)
(* Smart Summarizer v5 (src/app.py): the result parser, the filename       *)
(* sanitizer, the document composers and the orchestration of one user     *)
(* action, as a state machine.                                             *)
(*                                                                         *)
(* Text is a sequence of atoms.  An atom is one character (" ", "\t",      *)
(* "a", "{", ...) or, in a model response, one indivisible JSON lexeme     *)
(* ("null", or a quoted string literal written 'title', 'summary', ...).   *)
(* Python values are tagged records: None, str, int, list, dict.  An       *)
(* exception is an outcome: ok = FALSE in the value of json_loads and      *)
(* Join, raised = TRUE in a document, pc = "failed" in a run.              *)
(*                                                                         *)
(* Three specifications share the variables:                               *)
(*   SpecParse  safe_parse_json applied to one response text;              *)
(*   SpecFile   clean_filename applied to one title and clock reading;     *)
(*   Spec       the page: the widgets, the run a press of the button       *)
(*              starts (detect, summarize, translate, record, insert)      *)
(*              and the documents composed from its record.                *)
(* The texts of the model are shorter than the limits 1500 (line 63) and   *)
(* 60 (line 69): the slices are modelled, and never cut.                   *)
(***************************************************************************)
EXTENDS Integers, Sequences, FiniteSets, TLC

VARIABLES
    pc,                   \* position of the script run / harness
    input_text,           \* text area widget (line 130)
    uploaded_file,        \* file uploader widget (line 132): NoFile or a file
    input_text_from_file, \* line 133-142
    target_lang,          \* select box (line 146)
    final_input,          \* line 149
    detected_lang,        \* line 157-159
    raw,                  \* resp.text of the summarize call (line 116)
    parsed,               \* line 160, or the parser's output in SpecParse
    summary_text,         \* line 161
    translation_text,     \* line 162, 165
    final_lang,           \* line 163, 166
    result,               \* line 167-175
    calls,                \* the external calls of this run, in order
    warnings,             \* st.warning calls of this run
    doc,                  \* the last composed document (on demand)
    embedded,             \* SpecParse: how raw was built, [pre, core, post]
    fname_in,             \* SpecFile: the argument of clean_filename
    now,                  \* SpecFile: the clock reading of utcnow()
    fname_out             \* SpecFile: the value clean_filename returned

vars == <<pc, input_text, uploaded_file, input_text_from_file, target_lang,
          final_input, detected_lang, raw, parsed, summary_text,
          translation_text, final_lang, result, calls, warnings, doc,
          embedded, fname_in, now, fname_out>>

-----------------------------------------------------------------------------
(* Bounds *)

\* longest typed text
MaxText == 2
\* longest text held by an uploaded file
MaxFileText == 1
\* longest text of a translate response
MaxReply == 1
\* longest prose before and after the JSON text of a model response
MaxNoise == 2
\* longest argument of clean_filename
MaxName == 3

-----------------------------------------------------------------------------
(* Python values *)

None == [t |-> "None"]
PyStr(s) == [t |-> "str", s |-> s]
PyInt(n) == [t |-> "int", n |-> n]
PyList(l) == [t |-> "list", l |-> l]
PyDict(d) == [t |-> "dict", d |-> d]

EmptyMap == [k \in {} |-> None]

\* d[k] = v, the last assignment of a key winning
MapPut(d, k, v) == [x \in (DOMAIN d) \cup {k} |-> IF x = k THEN v ELSE d[x]]

\* dict.get(key, default); AttributeError on anything that is not a dict
HasGet(v) == v.t = "dict"
Get(v, k, default) == IF k \in DOMAIN v.d THEN v.d[k] ELSE default

\* bool(v)
Truthy(v) ==
    CASE v.t = "None" -> FALSE
      [] v.t = "str"  -> v.s # <<>>
      [] v.t = "int"  -> v.n # 0
      [] v.t = "list" -> v.l # <<>>
      [] v.t = "dict" -> DOMAIN v.d # {}

Min(a, b) == IF a < b THEN a ELSE b

\* s[:n]
Take(s, n) == SubSeq(s, 1, Min(Len(s), n))

\* the characters str.strip() and the regex class \s remove; JSON's whitespace
Whitespace == {" ", "\t", "\n"}

\* str.strip()
Strip(s) ==
    LET keep == {i \in 1..Len(s) : s[i] \notin Whitespace}
    IN  IF keep = {} THEN <<>>
        ELSE SubSeq(s, CHOOSE i \in keep : \A j \in keep : i <= j,
                       CHOOSE i \in keep : \A j \in keep : i >= j)

\* all sequences over S of length at most n
RECURSIVE SeqsUpTo(_, _)
SeqsUpTo(S, n) ==
    IF n = 0 THEN {<<>>}
    ELSE LET shorter == SeqsUpTo(S, n - 1)
         IN  shorter \cup {Append(s, c) : s \in shorter, c \in S}

-----------------------------------------------------------------------------
(* json.loads on a text of JSON lexemes *)

\* quoted string literals, each one atom of the text
StrLits == {"'title'", "'summary'", "'keywords'", "'T'"}

\* the text between the quotes
StrBody(c) ==
    CASE c = "'title'"    -> "title"
      [] c = "'summary'"  -> "summary"
      [] c = "'keywords'" -> "keywords"
      [] c = "'T'"        -> "T"

\* first position >= p that holds no whitespace (Len(s) + 1 if none)
SkipWs(s, p) ==
    LET rest == {i \in p..Len(s) : s[i] \notin Whitespace}
    IN  IF rest = {} THEN Len(s) + 1
        ELSE CHOOSE i \in rest : \A j \in rest : i <= j

\* first position >= p that holds no digit
SkipDigits(s, p) ==
    LET rest == {i \in p..Len(s) : s[i] # "1"}
    IN  IF rest = {} THEN Len(s) + 1
        ELSE CHOOSE i \in rest : \A j \in rest : i <= j

\* the number written as n digits "1"
RECURSIVE Ones(_)
Ones(n) == IF n = 0 THEN 0 ELSE 10 * Ones(n - 1) + 1

ParseFail == [ok |-> FALSE, v |-> None, p |-> 0]
ParseOk(v, p) == [ok |-> TRUE, v |-> v, p |-> p]

RECURSIVE ParseValue(_, _), ParseElems(_, _, _), ParseMembers(_, _, _)

\* one JSON value starting at position p
ParseValue(s, p) ==
    IF p > Len(s) THEN ParseFail
    ELSE LET c == s[p] IN
         CASE c \in StrLits -> ParseOk(PyStr(<<StrBody(c)>>), p + 1)
           [] c = "null" -> ParseOk(None, p + 1)
           [] c = "1" -> LET q == SkipDigits(s, p) IN ParseOk(PyInt(Ones(q - p)), q)
           [] c = "[" ->
                LET q == SkipWs(s, p + 1) IN
                IF q <= Len(s) /\ s[q] = "]" THEN ParseOk(PyList(<<>>), q + 1)
                ELSE ParseElems(s, q, <<>>)
           [] c = "{" ->
                LET q == SkipWs(s, p + 1) IN
                IF q <= Len(s) /\ s[q] = "}" THEN ParseOk(PyDict(EmptyMap), q + 1)
                ELSE ParseMembers(s, q, EmptyMap)
           [] OTHER -> ParseFail

\* the elements of an array, p at the start of an element
ParseElems(s, p, acc) ==
    LET r == ParseValue(s, p) IN
    IF ~r.ok THEN ParseFail
    ELSE LET q == SkipWs(s, r.p) IN
         IF q > Len(s) THEN ParseFail
         ELSE IF s[q] = "]" THEN ParseOk(PyList(Append(acc, r.v)), q + 1)
         ELSE IF s[q] = "," THEN ParseElems(s, SkipWs(s, q + 1), Append(acc, r.v))
         ELSE ParseFail

\* the members of an object, p at the start of a key
ParseMembers(s, p, acc) ==
    IF p > Len(s) \/ s[p] \notin StrLits THEN ParseFail
    ELSE LET c == SkipWs(s, p + 1) IN
         IF c > Len(s) \/ s[c] # ":" THEN ParseFail
         ELSE LET r == ParseValue(s, SkipWs(s, c + 1)) IN
              IF ~r.ok THEN ParseFail
              ELSE LET q == SkipWs(s, r.p)
                       d == MapPut(acc, StrBody(s[p]), r.v)
                   IN  IF q > Len(s) THEN ParseFail
                       ELSE IF s[q] = "}" THEN ParseOk(PyDict(d), q + 1)
                       ELSE IF s[q] = "," THEN ParseMembers(s, SkipWs(s, q + 1), d)
                       ELSE ParseFail

\* json.loads(s): [ok, v]; ok = FALSE stands for the exception it raises
json_loads(s) ==
    LET r == ParseValue(s, SkipWs(s, 1)) IN
    IF r.ok /\ SkipWs(s, r.p) > Len(s) THEN [ok |-> TRUE, v |-> r.v]
    ELSE [ok |-> FALSE, v |-> None]

\* re.search(r"\{.*\}", raw, re.DOTALL): the first "{" to the last "}"
re_search_braces(s) ==
    LET opens  == {i \in 1..Len(s) : s[i] = "{"}
        closes == {i \in 1..Len(s) : s[i] = "}"}
        first  == CHOOSE i \in opens : \A j \in opens : i <= j
        last   == CHOOSE i \in closes : \A j \in closes : i >= j
    IN  IF opens # {} /\ closes # {} /\ first < last
        THEN [found |-> TRUE, group |-> SubSeq(s, first, last)]
        ELSE [found |-> FALSE, group |-> <<>>]

\* the placeholder title of line 63 ("unspecified", in Arabic in the source)
UNSPECIFIED_TITLE == <<"unspecified">>

SUMMARY_LIMIT == 1500

\* the record of line 63
Degraded(s) ==
    PyDict([k \in {"title", "summary", "keywords"} |->
              CASE k = "title"    -> PyStr(UNSPECIFIED_TITLE)
                [] k = "summary"  -> PyStr(Take(s, SUMMARY_LIMIT))
                [] k = "keywords" -> PyList(<<>>)])

safe_parse_json(s) ==
    LET whole == json_loads(s) IN
    IF whole.ok THEN whole.v
    ELSE LET m == re_search_braces(s) IN
         IF m.found /\ json_loads(m.group).ok THEN json_loads(m.group).v
         ELSE Degraded(s)

-----------------------------------------------------------------------------
(* extract_text_from_file_bytes *)

\* filename.lower(), on the suffix of the name
Lower(ext) == IF ext = ".PDF" THEN ".pdf" ELSE ext

\* file.parses: whether the docx / pdf library reads the bytes without raising;
\* file.text: the paragraphs or pages joined with newlines, or the decoded bytes
extract_text_from_file_bytes(file) ==
    LET fn == Lower(file.ext) IN
    CASE fn = ".docx" -> IF file.parses THEN Strip(file.text) ELSE <<>>
      [] fn = ".pdf"  -> IF file.parses THEN Strip(file.text) ELSE <<>>
      [] fn = ".txt"  -> file.text
      [] OTHER        -> <<>>

-----------------------------------------------------------------------------
(* clean_filename *)

Digits == {"0", "1", "2", "3", "4", "5", "6", "7", "8", "9"}

\* the characters the regex class \w matches
WordChars == {"a", "_"} \cup Digits

DigitChar(n) ==
    CASE n = 0 -> "0" [] n = 1 -> "1" [] n = 2 -> "2" [] n = 3 -> "3"
      [] n = 4 -> "4" [] n = 5 -> "5" [] n = 6 -> "6" [] n = 7 -> "7"
      [] n = 8 -> "8" [] n = 9 -> "9"

\* n written in decimal, zero-padded to width w (%Y, %m, %d, %H, %M, %S)
RECURSIVE Pad(_, _)
Pad(n, w) == IF w = 0 THEN <<>> ELSE Append(Pad(n \div 10, w - 1), DigitChar(n % 10))

\* strftime("%Y%m%d_%H%M%S")
strftime(c) ==
    Pad(c.y, 4) \o Pad(c.mo, 2) \o Pad(c.d, 2) \o <<"_">>
        \o Pad(c.h, 2) \o Pad(c.mi, 2) \o Pad(c.s, 2)

\* re.sub(r'[^\w\-\s]', '', s)
StripSpecials(s) ==
    SelectSeq(s, LAMBDA c : c \in WordChars \cup {"-"} \cup Whitespace)

\* s.replace(" ", "_")
ReplaceSpaces(s) == [i \in 1..Len(s) |-> IF s[i] = " " THEN "_" ELSE s[i]]

FILENAME_LIMIT == 60

\* s: None or a str; c: the reading of utcnow()
clean_filename(s, c) ==
    LET text  == IF Truthy(s) THEN s.s ELSE <<>>
        clean == ReplaceSpaces(StripSpecials(Strip(text)))
    IN  Take(clean, FILENAME_LIMIT) \o <<"_">> \o strftime(c)

-----------------------------------------------------------------------------
(* create_pdf_buffer, create_docx_buffer *)

\* the separator of ', '.join
SEP == ", "

RECURSIVE JoinTexts(_)
JoinTexts(l) ==
    IF l = <<>> THEN <<>>
    ELSE IF Len(l) = 1 THEN l[1]
    ELSE l[1] \o <<SEP>> \o JoinTexts(Tail(l))

\* the keys of a dict, in one order (the map keeps no insertion order)
RECURSIVE KeyTexts(_)
KeyTexts(K) ==
    IF K = {} THEN <<>>
    ELSE LET k == CHOOSE x \in K : TRUE IN <<<<k>>>> \o KeyTexts(K \ {k})

\* ', '.join(v): [ok, text]; ok = FALSE stands for the TypeError it raises on
\* a value that cannot be iterated or that holds anything but str
Join(v) ==
    CASE v.t = "list" ->
            IF \A i \in 1..Len(v.l) : v.l[i].t = "str"
            THEN [ok |-> TRUE, text |-> JoinTexts([i \in 1..Len(v.l) |-> v.l[i].s])]
            ELSE [ok |-> FALSE, text |-> <<>>]
      [] v.t = "str" ->
            [ok |-> TRUE, text |-> JoinTexts([i \in 1..Len(v.s) |-> <<v.s[i]>>])]
      [] v.t = "dict" -> [ok |-> TRUE, text |-> JoinTexts(KeyTexts(DOMAIN v.d))]
      [] OTHER -> [ok |-> FALSE, text |-> <<>>]

Paragraph(field, val, tag) == [kind |-> "Paragraph", field |-> field, val |-> val, tag |-> tag]
Heading(field) == [kind |-> "Heading", field |-> field, val |-> None, tag |-> ""]
Spacer == [kind |-> "Spacer", field |-> "", val |-> None, tag |-> ""]

Raised(fmt) == [fmt |-> fmt, raised |-> TRUE, parts |-> <<>>]

\* lines 71-92: the flowables handed to doc.build, in order
create_pdf_buffer(r) ==
    LET kw == Join(r.keywords) IN
    IF ~kw.ok THEN Raised("pdf")
    ELSE [fmt |-> "pdf", raised |-> FALSE, parts |->
            <<Paragraph("heading", None, ""), Spacer,
              Paragraph("title", r.title, ""), Spacer,
              Paragraph("summary_label", None, ""),
              Paragraph("summary", r.summary, "")>>
            \o (IF Truthy(r.translation)
                THEN <<Spacer, Paragraph("translation_label", None, r.language),
                       Paragraph("translation", r.translation, "")>>
                ELSE <<>>)
            \o <<Spacer, Paragraph("keywords", PyStr(kw.text), "")>>]

\* lines 94-107: the heading and the paragraphs added to the document, in order
create_docx_buffer(r) ==
    LET kw == Join(r.keywords) IN
    IF ~kw.ok THEN Raised("docx")
    ELSE [fmt |-> "docx", raised |-> FALSE, parts |->
            <<Heading("heading"),
              Paragraph("title", r.title, ""),
              Paragraph("summary_label", None, ""),
              Paragraph("summary", r.summary, "")>>
            \o (IF Truthy(r.translation)
                THEN <<Paragraph("translation_label", None, r.language),
                       Paragraph("translation", r.translation, "")>>
                ELSE <<>>)
            \o <<Paragraph("keywords", PyStr(kw.text), "")>>]

-----------------------------------------------------------------------------
(* The inputs *)

\* characters of typed, extracted and translated text
TextChars == {" ", "a"}
Texts == SeqsUpTo(TextChars, MaxText)
FileTexts == SeqsUpTo(TextChars, MaxFileText)
Replies == SeqsUpTo(TextChars, MaxReply)

\* the options of the select box, line 146
NO_TRANSLATION == "No Translation"
TargetLangs == {NO_TRANSLATION, "Arabic", "English", "French", "Spanish"}

\* the codes langdetect's detect() answers with
DetectCodes == {"en", "ar"}

\* readings of datetime.datetime.utcnow()
Clock ==
    { [y |-> 2024, mo |-> 1, d |-> 5, h |-> 0, mi |-> 7, s |-> 9],
      [y |-> 2026, mo |-> 11, d |-> 1, h |-> 23, mi |-> 59, s |-> 59] }

\* characters of the text a model puts before and after its JSON
PreChars == {"x", " ", "{", "}", "["}
PostChars == {"x", " ", "{", "}", "]"}

\* the JSON text of a model response: objects of the requested shape,
\* objects that lack a key or hold null, JSON that is no object, broken JSON
JsonCores ==
    { <<"{", "'title'", ":", "'T'", ",", "'summary'", ":", "'T'", ",",
        "'keywords'", ":", "[", "'T'", "]", "}">>,
      <<"{", "'title'", ":", "'T'", "}">>,
      <<"{", "'summary'", ":", "null", "}">>,
      <<"{", "'summary'", ":", "'T'", ",", "'keywords'", ":", "null", "}">>,
      <<"{", "'summary'", ":", "'T'", ",", "'keywords'", ":", "'T'", "}">>,
      <<"{", "'summary'", ":", "'T'", ",", "'keywords'", ":", "1", "}">>,
      <<"{", "'summary'", ":", "{", "}", "}">>,
      <<"{", " ", "}">>,
      <<"[", "1", ",", "1", "1", "]">>,
      <<"1">>,
      <<"null">>,
      <<"'T'">>,
      <<"{", "'title'", ":", "}">>,
      <<"{", "'title'", "'T'", "}">>,
      <<"x">>,
      <<>> }

\* the responses of the summarize call in a run of the orchestrator
Responses ==
    JsonCores \cup
    { <<"x", " ">> \o <<"{", "'summary'", ":", "'T'", "}">> \o <<" ", "x">>,
      <<"{", "x", "}", " ">> \o <<"{", "'summary'", ":", "'T'", "}">> }

\* the files the uploader accepts (type = pdf, docx, txt); the bytes of a
\* .txt file always decode (errors = "ignore")
Files ==
    [ext : {".docx", ".PDF"}, parses : {TRUE}, text : FileTexts] \cup
    [ext : {".docx", ".PDF"}, parses : {FALSE}, text : {<<>>}] \cup
    [ext : {".txt"}, parses : {TRUE}, text : FileTexts]

\* characters of a title handed to clean_filename
NameChars == {"a", "-", " ", "\t", "!"}
Names == {None} \cup {PyStr(s) : s \in SeqsUpTo(NameChars, MaxName)}

\* the values every variable of the orchestrator holds before a run
NoFile == [ext |-> "none", parses |-> FALSE, text |-> <<>>]
NoRecord == [t |-> "NoRecord"]
NoDoc == [fmt |-> "none", raised |-> FALSE, parts |-> <<>>]
NoClock == [y |-> 0, mo |-> 0, d |-> 0, h |-> 0, mi |-> 0, s |-> 0]
NotEmbedded == [pre |-> <<>>, core |-> <<>>, post |-> <<>>]

-----------------------------------------------------------------------------
(* The result parser alone: safe_parse_json applied to one response *)

InitParse ==
    /\ pc = "parse_call"
    /\ embedded \in [pre : SeqsUpTo(PreChars, MaxNoise), core : JsonCores,
                     post : SeqsUpTo(PostChars, MaxNoise)]
    /\ raw = embedded.pre \o embedded.core \o embedded.post
    /\ parsed = None
    /\ input_text = <<>>
    /\ uploaded_file = NoFile
    /\ input_text_from_file = <<>>
    /\ target_lang = NO_TRANSLATION
    /\ final_input = <<>>
    /\ detected_lang = "unknown"
    /\ summary_text = None
    /\ translation_text = None
    /\ final_lang = "unknown"
    /\ result = NoRecord
    /\ calls = <<>>
    /\ warnings = <<>>
    /\ doc = NoDoc
    /\ fname_in = None
    /\ now = NoClock
    /\ fname_out = <<>>

ParseCall ==
    /\ pc = "parse_call"
    /\ parsed' = safe_parse_json(raw)
    /\ pc' = "parse_done"
    /\ UNCHANGED <<input_text, uploaded_file, input_text_from_file, target_lang,
                   final_input, detected_lang, raw, summary_text,
                   translation_text, final_lang, result, calls, warnings, doc,
                   embedded, fname_in, now, fname_out>>

NextParse == ParseCall

SpecParse == InitParse /\ [][NextParse]_vars

-----------------------------------------------------------------------------
(* The filename sanitizer alone: clean_filename applied to one title *)

InitFile ==
    /\ pc = "file_call"
    /\ fname_in \in Names
    /\ now \in Clock
    /\ fname_out = <<>>
    /\ embedded = NotEmbedded
    /\ raw = <<>>
    /\ parsed = None
    /\ input_text = <<>>
    /\ uploaded_file = NoFile
    /\ input_text_from_file = <<>>
    /\ target_lang = NO_TRANSLATION
    /\ final_input = <<>>
    /\ detected_lang = "unknown"
    /\ summary_text = None
    /\ translation_text = None
    /\ final_lang = "unknown"
    /\ result = NoRecord
    /\ calls = <<>>
    /\ warnings = <<>>
    /\ doc = NoDoc

FileCall ==
    /\ pc = "file_call"
    /\ fname_out' = clean_filename(fname_in, now)
    /\ pc' = "file_done"
    /\ UNCHANGED <<input_text, uploaded_file, input_text_from_file, target_lang,
                   final_input, detected_lang, raw, parsed, summary_text,
                   translation_text, final_lang, result, calls, warnings, doc,
                   embedded, fname_in, now>>

NextFile == FileCall

SpecFile == InitFile /\ [][NextFile]_vars

-----------------------------------------------------------------------------
(* The orchestrator: the script of lines 126-181, run again from the top   *)
(* on every interaction with a widget                                      *)

\* the value of the "title" default of line 168 ("summary", in Arabic)
DEFAULT_TITLE == <<"default-title">>

\* where a run of the script has ended and the page waits for the user
Resting == {"idle", "warned", "failed", "persisted"}

Call(op, arg, to) == [op |-> op, arg |-> arg, to |-> to]

\* final_input = input_text_from_file or input_text
FinalInput_OrTyped(text, file, from_file) ==
    IF from_file # <<>> THEN from_file ELSE text

\* line 149: final_input = input_text_from_file if uploaded_file else input_text or ""
FinalInput(text, file, from_file) == IF file # NoFile THEN from_file ELSE text

\* lines 133-142
FromFile(file) == IF file # NoFile THEN extract_text_from_file_bytes(file) ELSE <<>>

\* line 153: not final_input.strip()
IsBlank(text) == Strip(text) = <<>>

\* lines 126-154: one run of the script with the widgets holding text, file
\* and target, and action_btn telling whether the button was the widget used
ScriptRun(text, file, target, action_btn) ==
    LET from_file == FromFile(file)
        final == FinalInput(text, file, from_file)
        extract_warning == IF file # NoFile /\ from_file = <<>>
                           THEN <<"extract">> ELSE <<>>
    IN  /\ input_text' = text
        /\ uploaded_file' = file
        /\ target_lang' = target
        /\ input_text_from_file' = from_file
        /\ final_input' = final
        /\ detected_lang' = "unknown"
        /\ raw' = <<>>
        /\ parsed' = None
        /\ summary_text' = None
        /\ translation_text' = None
        /\ final_lang' = "unknown"
        /\ result' = NoRecord
        /\ calls' = <<>>
        /\ doc' = NoDoc
        /\ IF ~action_btn
           THEN /\ warnings' = extract_warning
                /\ pc' = "idle"
           ELSE IF IsBlank(final)
           THEN /\ warnings' = Append(extract_warning, "empty")
                /\ pc' = "warned"
           ELSE /\ warnings' = extract_warning
                /\ pc' = "detect"
        /\ UNCHANGED <<embedded, fname_in, now, fname_out>>

\* the page is shown again after a run has ended (the next interaction runs
\* the script from the top: the values of the last run are gone)
Rerun ==
    /\ pc \in Resting \ {"idle"}
    /\ ScriptRun(input_text, uploaded_file, target_lang, FALSE)

\* the user types into the text area
EnterText ==
    /\ pc = "idle"
    /\ \E text \in Texts : ScriptRun(text, uploaded_file, target_lang, FALSE)

\* the user uploads a file, or removes the uploaded one
UploadFile ==
    /\ pc = "idle"
    /\ \E file \in Files \cup {NoFile} :
          ScriptRun(input_text, file, target_lang, FALSE)

\* the user picks a translation target
SelectTarget ==
    /\ pc = "idle"
    /\ \E target \in TargetLangs :
          ScriptRun(input_text, uploaded_file, target, FALSE)

\* the user presses the button
ClickAction ==
    /\ pc \in Resting
    /\ ScriptRun(input_text, uploaded_file, target_lang, TRUE)

\* lines 157-159: detect() answers with a code or raises
Detect ==
    /\ pc = "detect"
    /\ \E outcome \in DetectCodes \cup {"raise"} :
          detected_lang' = IF outcome = "raise" THEN "unknown" ELSE outcome
    /\ calls' = Append(calls, Call("detect", PyStr(final_input), ""))
    /\ pc' = "summarize"
    /\ UNCHANGED <<input_text, uploaded_file, input_text_from_file, target_lang,
                   final_input, raw, parsed, summary_text, translation_text,
                   final_lang, result, warnings, doc,
                   embedded, fname_in, now, fname_out>>

\* lines 160-163 when generate_content (or resp.text) raises
SummarizeRaises ==
    /\ pc = "summarize"
    /\ calls' = Append(calls, Call("summarize", PyStr(final_input), ""))
    /\ pc' = "failed"
    /\ UNCHANGED <<input_text, uploaded_file, input_text_from_file, target_lang,
                   final_input, detected_lang, raw, parsed, summary_text,
                   translation_text, final_lang, result, warnings, doc,
                   embedded, fname_in, now, fname_out>>

\* lines 109-117: what gemini_summarize returns when the call answers resp
gemini_summarize(resp) == safe_parse_json(resp)

\* the translate call made whatever the target
AfterSummary_AlwaysTranslate(target) == "translate"

\* line 164: if target_lang != "No Translation"
AfterSummary(target) ==
    IF target # NO_TRANSLATION THEN "translate" ELSE "assemble"

\* lines 160-164 when the call answers with resp
Summarize ==
    /\ pc = "summarize"
    /\ \E resp \in Responses :
          /\ raw' = resp
          /\ parsed' = gemini_summarize(resp)
    /\ calls' = Append(calls, Call("summarize", PyStr(final_input), ""))
    /\ IF HasGet(parsed')
       THEN /\ summary_text' = Get(parsed', "summary", PyStr(<<>>))
            /\ final_lang' = detected_lang
            /\ pc' = AfterSummary(target_lang)
       ELSE \* parsed.get raises AttributeError
            /\ summary_text' = None
            /\ final_lang' = "unknown"
            /\ pc' = "failed"
    /\ translation_text' = None
    /\ UNCHANGED <<input_text, uploaded_file, input_text_from_file, target_lang,
                   final_input, detected_lang, result, warnings, doc,
                   embedded, fname_in, now, fname_out>>

\* lines 164-166 when generate_content (or resp.text) raises
TranslateRaises ==
    /\ pc = "translate"
    /\ calls' = Append(calls, Call("translate", summary_text, target_lang))
    /\ pc' = "failed"
    /\ UNCHANGED <<input_text, uploaded_file, input_text_from_file, target_lang,
                   final_input, detected_lang, raw, parsed, summary_text,
                   translation_text, final_lang, result, warnings, doc,
                   embedded, fname_in, now, fname_out>>

\* lines 119-123: what gemini_translate returns when the call answers resp
gemini_translate(resp) == PyStr(Strip(resp))

\* the language of the record left as detected
TranslatedLang_Detected(target, detected) == detected

\* line 166: final_lang = target_lang
TranslatedLang(target, detected) == target

\* lines 164-166 when the call answers with resp
Translate ==
    /\ pc = "translate"
    /\ \E resp \in Replies : translation_text' = gemini_translate(resp)
    /\ calls' = Append(calls, Call("translate", summary_text, target_lang))
    /\ final_lang' = TranslatedLang(target_lang, detected_lang)
    /\ pc' = "assemble"
    /\ UNCHANGED <<input_text, uploaded_file, input_text_from_file, target_lang,
                   final_input, detected_lang, raw, parsed, summary_text,
                   result, warnings, doc, embedded, fname_in, now, fname_out>>

\* lines 167-175
ResultRecord(created_at) ==
    [t |-> "record",
     title |-> Get(parsed, "title", PyStr(DEFAULT_TITLE)),
     summary |-> summary_text,
     keywords |-> Get(parsed, "keywords", PyList(<<>>)),
     translation |-> translation_text,
     language |-> final_lang,
     input_text |-> final_input,
     created_at |-> created_at]

Assemble ==
    /\ pc = "assemble"
    /\ \E c \in Clock : result' = ResultRecord(c)
    /\ pc' = "persist"
    /\ UNCHANGED <<input_text, uploaded_file, input_text_from_file, target_lang,
                   final_input, detected_lang, raw, parsed, summary_text,
                   translation_text, final_lang, calls, warnings, doc,
                   embedded, fname_in, now, fname_out>>

\* lines 177-181: the insert into "summaries", whatever it answers
Persist ==
    /\ pc = "persist"
    /\ calls' = Append(calls, Call("insert", PyStr(result.input_text), ""))
    /\ pc' = "persisted"
    /\ UNCHANGED <<input_text, uploaded_file, input_text_from_file, target_lang,
                   final_input, detected_lang, raw, parsed, summary_text,
                   translation_text, final_lang, result, warnings, doc,
                   embedded, fname_in, now, fname_out>>

\* a download of the result as PDF
ComposePdf ==
    /\ pc = "persisted"
    /\ doc' = create_pdf_buffer(result)
    /\ UNCHANGED <<pc, input_text, uploaded_file, input_text_from_file,
                   target_lang, final_input, detected_lang, raw, parsed,
                   summary_text, translation_text, final_lang, result, calls,
                   warnings, embedded, fname_in, now, fname_out>>

\* a download of the result as DOCX
ComposeDocx ==
    /\ pc = "persisted"
    /\ doc' = create_docx_buffer(result)
    /\ UNCHANGED <<pc, input_text, uploaded_file, input_text_from_file,
                   target_lang, final_input, detected_lang, raw, parsed,
                   summary_text, translation_text, final_lang, result, calls,
                   warnings, embedded, fname_in, now, fname_out>>

Init ==
    /\ pc = "idle"
    /\ input_text = <<>>
    /\ uploaded_file = NoFile
    /\ input_text_from_file = <<>>
    /\ target_lang = NO_TRANSLATION
    /\ final_input = <<>>
    /\ detected_lang = "unknown"
    /\ raw = <<>>
    /\ parsed = None
    /\ summary_text = None
    /\ translation_text = None
    /\ final_lang = "unknown"
    /\ result = NoRecord
    /\ calls = <<>>
    /\ warnings = <<>>
    /\ doc = NoDoc
    /\ embedded = NotEmbedded
    /\ fname_in = None
    /\ now = NoClock
    /\ fname_out = <<>>

Next ==
    \/ Rerun
    \/ EnterText
    \/ UploadFile
    \/ SelectTarget
    \/ ClickAction
    \/ Detect
    \/ SummarizeRaises
    \/ Summarize
    \/ TranslateRaises
    \/ Translate
    \/ Assemble
    \/ Persist
    \/ ComposePdf
    \/ ComposeDocx

Spec == Init /\ [][Next]_vars

-----------------------------------------------------------------------------
(* The result parser's contract (SpecParse) *)

\* C1: whatever the response text, safe_parse_json returns a mapping from
\* which title, summary and keywords can be read with .get (a dict), also
\* for valid JSON that is no object and for objects that lack those keys.
C1_ParserReturnsRecord ==
    pc = "parse_done" => HasGet(parsed)

\* C2: when the response holds a valid JSON object inside other text,
\* safe_parse_json returns that object, also when the other text holds
\* braces of its own.
C2_EmbeddedObjectExtracted ==
    LET core == json_loads(embedded.core) IN
    (pc = "parse_done" /\ core.ok /\ core.v.t = "dict") => parsed = core.v

\* no part of the text is a valid JSON object
ContainsNoJsonObject(s) ==
    \A i \in 1..Len(s) : \A j \in i..Len(s) :
        LET part == json_loads(SubSeq(s, i, j)) IN ~(part.ok /\ part.v.t = "dict")

\* C3: when the response holds no valid JSON object anywhere,
\* safe_parse_json returns exactly the degraded record: the placeholder
\* title, the first 1500 characters of the input, no keywords.
C3_NoObjectGivesDegraded ==
    (pc = "parse_done" /\ ContainsNoJsonObject(raw)) => parsed = Degraded(raw)

-----------------------------------------------------------------------------
(* The filename sanitizer's contract (SpecFile) *)

\* C6: clean_filename returns <prefix>_<YYYYMMDD>_<HHMMSS>, the prefix at most
\* 60 characters long, and nothing in the output but word characters,
\* hyphens and underscores.
C6_FilenameIsSafe ==
    pc = "file_done" =>
        LET n == Len(fname_out) - 16 IN
        /\ n >= 0
        /\ n <= FILENAME_LIMIT
        /\ SubSeq(fname_out, n + 1, Len(fname_out)) = <<"_">> \o strftime(now)
        /\ \A i \in 1..Len(fname_out) : fname_out[i] \in WordChars \cup {"-"}

-----------------------------------------------------------------------------
(* The result record (Spec) *)

\* the names of the calls made so far, in order
Ops == [i \in 1..Len(calls) |-> calls[i].op]

IsPrefix(s, full) == Len(s) <= Len(full) /\ s = SubSeq(full, 1, Len(s))

\* C4: in every assembled record translation and language agree: without a
\* target, translation is null and language is the detected language (or
\* "unknown"); with a target, translation is not null and language is the
\* target.  No record has a target's name as its language and a null
\* translation.
C4_TranslationLanguageConsistent ==
    result # NoRecord =>
        /\ target_lang = NO_TRANSLATION =>
              /\ result.translation = None
              /\ result.language = detected_lang
              /\ detected_lang \in DetectCodes \cup {"unknown"}
        /\ target_lang # NO_TRANSLATION =>
              /\ result.translation # None
              /\ result.language = target_lang
        /\ result.language \in TargetLangs \ {NO_TRANSLATION} =>
              result.translation # None

\* C4's case: a record of a run that translated into French
C4_Witness ==
    /\ result # NoRecord
    /\ target_lang = "French"
    /\ detected_lang = "en"
    /\ result.translation = PyStr(<<"a">>)
    /\ result.language = "French"

\* the text the widgets hand to the run is empty or only whitespace
EffectiveInputBlank ==
    IF uploaded_file # NoFile THEN IsBlank(input_text_from_file)
    ELSE IsBlank(input_text)

\* C5: when the button is pressed and the effective input is blank (nothing
\* typed, or a file uploaded whose extraction gave nothing), the run only
\* warns: no detection, no summarize, no translate, no insert, no record.
C5_BlankInputOnlyWarns ==
    (pc # "idle" /\ EffectiveInputBlank) =>
        /\ pc = "warned"
        /\ calls = <<>>
        /\ result = NoRecord
        /\ doc = NoDoc
        /\ warnings # <<>> /\ warnings[Len(warnings)] = "empty"

\* C5's case: the button pressed with a file that yields no text, while the
\* text area holds text
C5_Witness ==
    /\ pc = "warned"
    /\ uploaded_file # NoFile
    /\ input_text_from_file = <<>>
    /\ input_text = <<"a">>

\* C7: in every assembled record summary is a text, never null, and when the
\* response gave no summary (no "summary" key, or null) it is the first 1500
\* characters of the raw response.
C7_SummaryNeverAbsent ==
    result # NoRecord =>
        /\ result.summary.t = "str"
        /\ Get(parsed, "summary", None) = None =>
              result.summary = PyStr(Take(raw, SUMMARY_LIMIT))

\* C8: in every assembled record keywords is a sequence of texts (possibly
\* empty), never null, whatever the response held under "keywords".
C8_KeywordsIsSequence ==
    result # NoRecord =>
        /\ result.keywords.t = "list"
        /\ \A i \in 1..Len(result.keywords.l) : result.keywords.l[i].t = "str"

\* the calls of a whole run, in order
AllCalls ==
    IF target_lang # NO_TRANSLATION
    THEN <<"detect", "summarize", "translate", "insert">>
    ELSE <<"detect", "summarize", "insert">>

\* C9: within one run the calls happen in this order, each at most once:
\* detect, summarize on the whole input, translate on the parsed summary
\* (only with a target), then the record, then the insert.  Translate never
\* comes before summarize has returned, the insert never before the record;
\* when summarize or translate raises there is no record and no insert.
C9_CallOrder ==
    /\ IsPrefix(Ops, AllCalls)
    /\ \A i \in 1..Len(calls) :
          /\ calls[i].op = "summarize" => calls[i].arg = PyStr(final_input)
          /\ calls[i].op = "translate" =>
                /\ HasGet(parsed)
                /\ calls[i].arg = Get(parsed, "summary", PyStr(<<>>))
                /\ calls[i].to = target_lang
    /\ result # NoRecord => IsPrefix(SubSeq(AllCalls, 1, Len(AllCalls) - 1), Ops)
    /\ result = NoRecord => \A i \in 1..Len(calls) : calls[i].op # "insert"
    /\ pc = "failed" => result = NoRecord

\* C9's case: a run with a target that went through all four calls
C9_Witness ==
    /\ pc = "persisted"
    /\ Ops = <<"detect", "summarize", "translate", "insert">>
    /\ result # NoRecord

-----------------------------------------------------------------------------
(* The document composers (Spec) *)

\* the fields of a document in order, spacing left out
Fields(parts) ==
    LET content == SelectSeq(parts, LAMBDA x : x.kind # "Spacer")
    IN  [i \in 1..Len(content) |->
            <<content[i].field, content[i].val, content[i].tag>>]

HasField(parts, f) == \E i \in 1..Len(parts) : parts[i].field = f

\* C10: the PDF and the DOCX of a record hold the same fields in the same
\* order (heading, title, summary label, summary, translation label with the
\* language, translation, keywords joined by ', '), the translation label and
\* body being there exactly when the record's translation is not null, also
\* when it is the empty text of a whitespace-only translate response.
C10_ComposersAgree ==
    (doc.fmt # "none" /\ ~doc.raised) =>
        /\ Fields(create_pdf_buffer(result).parts)
              = Fields(create_docx_buffer(result).parts)
        /\ HasField(doc.parts, "translation_label") <=> result.translation # None
        /\ HasField(doc.parts, "translation") <=> result.translation # None

====
